---- MODULE Spec2Model ----
(***************************************************************************)
(* Model of backend/python-api/cv_analysis.py: the CVAnalyzer extraction   *)
(* and scoring methods and the /analyze and /batch-analyze handlers.       *)
(*                                                                         *)
(* Python strings are sequences of one-character strings, so that lower(), *)
(* title(), the `in` substring test, endswith() and the regular            *)
(* expressions are computed character by character.  Scores are kept in    *)
(* hundredths (66.67 is 6667); a score that the code holds unrounded is a  *)
(* fraction num/den of integers, and round(x, 2) is RoundHalfEven.  The    *)
(* arithmetic is exact where the code's is binary floating point; on the   *)
(* inputs of this model the two give the same results (they first part at  *)
(* min_experience_years = 24, on an exact tie between two hundredths), and *)
(* no theorem below depends on the direction in which a tie is rounded.    *)
(***************************************************************************)
EXTENDS Integers, Sequences, FiniteSets, TLC

VARIABLES pc, files, job_requirements, idx, results, response, text, cv_data, score

vars == <<pc, files, job_requirements, idx, results, response, text, cv_data, score>>

(***************************************************************************)
(* Bounds of the model.                                                    *)
(***************************************************************************)
MaxYears == 9
MaxReq == 9
MaxFiles == 3
MaxFragments == 2

(***************************************************************************)
(* Strings.                                                                *)
(***************************************************************************)
None == <<"<None>">>

UpperChars == <<"A","B","C","D","E","F","G","H","I","J","K","L","M","N","O","P","Q","R","S","T","U","V","W","X","Y","Z">>

LowerChars == <<"a","b","c","d","e","f","g","h","i","j","k","l","m","n","o","p","q","r","s","t","u","v","w","x","y","z">>

DigitChars == <<"0","1","2","3","4","5","6","7","8","9">>

Range(s) == {s[i] : i \in 1..Len(s)}

IsUpper(c) == c \in Range(UpperChars)

IsLower(c) == c \in Range(LowerChars)

IsAlpha(c) == IsUpper(c) \/ IsLower(c)

IsDigit(c) == c \in Range(DigitChars)

LowerChar(c) == IF IsUpper(c) THEN LowerChars[CHOOSE i \in 1..26 : UpperChars[i] = c] ELSE c

UpperChar(c) == IF IsLower(c) THEN UpperChars[CHOOSE i \in 1..26 : LowerChars[i] = c] ELSE c

\* str.lower()
Lower(s) == [i \in 1..Len(s) |-> LowerChar(s[i])]

\* str.upper()
Upper(s) == [i \in 1..Len(s) |-> UpperChar(s[i])]

\* str.title(): a letter that follows a non-letter is upper-cased, any other letter lower-cased
Title(s) == [i \in 1..Len(s) |-> IF i = 1 \/ ~IsAlpha(s[i-1]) THEN UpperChar(s[i]) ELSE LowerChar(s[i])]

\* sub in s, for strings
Contains(s, sub) ==
  \/ sub = <<>>
  \/ \E i \in 1..(Len(s) - Len(sub) + 1) : s[i] = sub[1] /\ SubSeq(s, i, i + Len(sub) - 1) = sub

\* s.endswith(suffix)
EndsWith(s, suffix) == Len(s) >= Len(suffix) /\ SubSeq(s, Len(s) - Len(suffix) + 1, Len(s)) = suffix

\* x in lst, for lists
InList(x, lst) == \E i \in 1..Len(lst) : lst[i] = x

\* bool(v) of an Optional[str]
Truthy(v) == v # None /\ v # <<>>

Min(a, b) == IF a <= b THEN a ELSE b

Max(a, b) == IF a >= b THEN a ELSE b

(***************************************************************************)
(* round(num/den, 0) for num >= 0, den > 0, ties to even, as Python's      *)
(* round() does; with num in hundredths this is round(x, 2) in hundredths. *)
(***************************************************************************)
RoundHalfEven(num, den) ==
  LET q == num \div den
      r == num % den
  IN  IF 2 * r > den \/ (2 * r = den /\ q % 2 = 1) THEN q + 1 ELSE q

(***************************************************************************)
(* CVAnalyzer.calculate_skill_match_score, in hundredths.                  *)
(***************************************************************************)
\* variant: the candidate's skills are compared as written, without lower()
SkillMatchesCaseSensitive(candidate_skills, required_skills) ==
  LET required_skills_lower == [i \in 1..Len(required_skills) |-> Lower(required_skills[i])]
  IN  Cardinality({i \in 1..Len(required_skills_lower) :
                     InList(required_skills_lower[i], candidate_skills)})

SkillMatches(candidate_skills, required_skills) ==
  LET candidate_skills_lower == [i \in 1..Len(candidate_skills) |-> Lower(candidate_skills[i])]
      required_skills_lower == [i \in 1..Len(required_skills) |-> Lower(required_skills[i])]
  IN  Cardinality({i \in 1..Len(required_skills_lower) :
                     InList(required_skills_lower[i], candidate_skills_lower)})

calculate_skill_match_score(candidate_skills, required_skills) ==
  IF required_skills = <<>>
    THEN 10000
    ELSE RoundHalfEven(SkillMatches(candidate_skills, required_skills) * 10000, Len(required_skills))

(***************************************************************************)
(* The experience part of calculate_overall_score: exp_score as the        *)
(* fraction num/den.                                                       *)
(***************************************************************************)
\* variant: the over-qualified branch without min(100, ...)
ExpScoreNoCap(candidate_exp, required_exp) ==
  LET den == Max(required_exp, 1)
  IN  IF candidate_exp >= required_exp
        THEN [num |-> candidate_exp * 100, den |-> den]
        ELSE [num |-> candidate_exp * 70, den |-> den]

\* variant: the under-qualified branch without the 0.7 penalty factor
ExpScoreNoPenalty(candidate_exp, required_exp) ==
  LET den == Max(required_exp, 1)
  IN  IF candidate_exp >= required_exp
        THEN [num |-> Min(100 * den, candidate_exp * 100), den |-> den]
        ELSE [num |-> candidate_exp * 100, den |-> den]

ExpScore(candidate_exp, required_exp) ==
  LET den == Max(required_exp, 1)
  IN  IF candidate_exp >= required_exp
        THEN [num |-> Min(100 * den, candidate_exp * 100), den |-> den]
        ELSE [num |-> candidate_exp * 70, den |-> den]

(***************************************************************************)
(* The education part of calculate_overall_score.                          *)
(***************************************************************************)
S_phd == <<"p","h","d">>
S_master == <<"m","a","s","t","e","r">>
S_bachelor == <<"b","a","c","h","e","l","o","r">>
S_mba == <<"m","b","a">>
S_msc == <<"m","s","c">>
S_bsc == <<"b","s","c">>
S_ba == <<"b","a">>
S_ma == <<"m","a">>

MasterTier == <<Upper(S_master), Upper(S_mba), Upper(S_msc), Upper(S_ma)>>

BachelorTier == <<Upper(S_bachelor), Upper(S_bsc), Upper(S_ba)>>

AnyIn(tier, candidate_edu) == \E i \in 1..Len(tier) : InList(tier[i], candidate_edu)

\* variant: the requirement string is used as written, without lower()
EduScoreCaseSensitive(required_education, candidate_edu) ==
  LET required_edu == required_education
  IN  IF Contains(required_edu, S_phd) /\ InList(Upper(S_phd), candidate_edu) THEN 100
      ELSE IF Contains(required_edu, S_master) /\ AnyIn(MasterTier, candidate_edu) THEN 100
      ELSE IF Contains(required_edu, S_bachelor) /\ AnyIn(BachelorTier, candidate_edu) THEN 100
      ELSE IF candidate_edu # <<>> THEN 80
      ELSE 0

EduScore(required_education, candidate_edu) ==
  LET required_edu == Lower(required_education)
  IN  IF Contains(required_edu, S_phd) /\ InList(Upper(S_phd), candidate_edu) THEN 100
      ELSE IF Contains(required_edu, S_master) /\ AnyIn(MasterTier, candidate_edu) THEN 100
      ELSE IF Contains(required_edu, S_bachelor) /\ AnyIn(BachelorTier, candidate_edu) THEN 100
      ELSE IF candidate_edu # <<>> THEN 80
      ELSE 0

(***************************************************************************)
(* The completeness part of calculate_overall_score.                       *)
(***************************************************************************)
Completeness(cv) ==
    (IF Truthy(cv.email) THEN 25 ELSE 0)
  + (IF Truthy(cv.phone) THEN 25 ELSE 0)
  + (IF cv.skills # <<>> THEN 25 ELSE 0)
  + (IF cv.experience_years > 0 THEN 25 ELSE 0)

(***************************************************************************)
(* CVAnalyzer._get_recommendation on the fraction num/den.                 *)
(***************************************************************************)
StrongMatch == "Strong Match - Highly Recommended for Interview"
GoodMatch == "Good Match - Recommended for Interview"
ModerateMatch == "Moderate Match - Consider for Interview"
WeakMatch == "Weak Match - Not Recommended"

_get_recommendation(num, den) ==
  IF num >= 80 * den THEN StrongMatch
  ELSE IF num >= 65 * den THEN GoodMatch
  ELSE IF num >= 50 * den THEN ModerateMatch
  ELSE WeakMatch

(***************************************************************************)
(* total_score = sum(scores.values()) as the fraction num/den:             *)
(* skills_score*0.4 + exp_score*0.3 + edu_score*0.2 + completeness*0.1     *)
(* with skills_score in hundredths and exp_score = exp.num/exp.den.        *)
(***************************************************************************)
\* variant: the skills and experience weights exchanged (0.3 and 0.4)
TotalScoreSwappedWeights(skills_score, exp, edu_score, completeness) ==
  [num |-> 3 * skills_score * exp.den + 400 * exp.num
           + 200 * edu_score * exp.den + 100 * completeness * exp.den,
   den |-> 1000 * exp.den]

TotalScore(skills_score, exp, edu_score, completeness) ==
  [num |-> 4 * skills_score * exp.den + 300 * exp.num
           + 200 * edu_score * exp.den + 100 * completeness * exp.den,
   den |-> 1000 * exp.den]

(***************************************************************************)
(* CVAnalyzer.calculate_overall_score; every number of the returned dict   *)
(* is in hundredths.                                                       *)
(***************************************************************************)
calculate_overall_score(cv, req) ==
  LET skills_score == calculate_skill_match_score(cv.skills, req.required_skills)
      exp_score == ExpScore(cv.experience_years, req.min_experience_years)
      edu_score == EduScore(req.required_education, cv.education)
      completeness == Completeness(cv)
      total_score == TotalScore(skills_score, exp_score, edu_score, completeness)
  IN  [overall_score |-> RoundHalfEven(100 * total_score.num, total_score.den),
       breakdown |-> [skills_match |-> skills_score,
                      experience_match |-> RoundHalfEven(100 * exp_score.num, exp_score.den),
                      education_match |-> 100 * edu_score,
                      cv_completeness |-> 100 * completeness],
       recommendation |-> _get_recommendation(total_score.num, total_score.den)]

(***************************************************************************)
(* Inputs of the scoring call: candidate profiles and requirement          *)
(* profiles drawn from bounded sets.                                       *)
(***************************************************************************)
T_email == <<"a","@","b",".","c","o","m">>
T_phone_cc == <<"+","1"," ">>
T_Python == <<"P","y","t","h","o","n">>
T_React == <<"R","e","a","c","t">>
T_Docker == <<"D","o","c","k","e","r">>
T_python == <<"p","y","t","h","o","n">>
T_react == <<"r","e","a","c","t">>
T_docker == <<"d","o","c","k","e","r">>
T_REACT == <<"R","E","A","C","T">>
T_PhD == <<"P","h","D">>
T_MasterOrPhD == <<"M","a","s","t","e","r"," ","o","r"," ","P","h","D">>

ScoreEmails == {None, T_email}

ScorePhones == {None, <<>>, T_phone_cc}

ScoreSkills ==
  { <<>>, <<T_Python>>, <<T_Python, T_React>>, <<T_React, T_Python>>, <<T_REACT, T_Docker, T_python>> }

ScoreEducation ==
  { <<>>, <<Upper(S_phd)>>, <<Upper(S_mba)>>, <<Upper(S_bachelor), Upper(S_ba)>>, <<Upper(S_ma), Upper(S_phd)>> }

RequiredSkills ==
  { <<>>, <<T_Python>>, <<T_python, T_react, T_docker>>, <<T_react, T_React>> }

RequiredEducation == { T_PhD, S_bachelor, T_MasterOrPhD, <<>> }

NoScore == [none |-> TRUE]

NoData == [none |-> TRUE]

NoResponse == [none |-> TRUE]

(***************************************************************************)
(* Specification SpecScore: one call of calculate_overall_score.           *)
(***************************************************************************)
InitScore ==
  /\ pc = "score_call"
  /\ cv_data \in [email : ScoreEmails, phone : ScorePhones, skills : ScoreSkills,
                  experience_years : 0..MaxYears, education : ScoreEducation]
  /\ job_requirements \in [required_skills : RequiredSkills,
                           min_experience_years : (-1)..MaxReq,
                           required_education : RequiredEducation]
  /\ score = NoScore
  /\ files = <<>>
  /\ idx = 0
  /\ results = <<>>
  /\ response = NoResponse
  /\ text = <<>>

Score ==
  /\ pc = "score_call"
  /\ score' = calculate_overall_score(cv_data, job_requirements)
  /\ pc' = "score_done"
  /\ UNCHANGED <<files, job_requirements, idx, results, response, text, cv_data>>

NextScore == Score

SpecScore == InitScore /\ [][NextScore]_vars

(***************************************************************************)
(* Character classes and scanning helpers for the regular expressions.     *)
(***************************************************************************)
MaxOf(S) == CHOOSE x \in S : \A y \in S : y <= x

MinOf(S) == CHOOSE x \in S : \A y \in S : x <= y

\* [A-Za-z]
Alpha == Range(UpperChars) \cup Range(LowerChars)

\* \d
Digit == Range(DigitChars)

\* \w
Word == Alpha \cup Digit \cup {"_"}

\* \s
Space == {" ", "\t", "\n", "\r", "\f"}

\* [-.\s]
PhoneSep == {"-", "."} \cup Space

\* [A-Za-z0-9._%+-]
EmailLocal == Alpha \cup Digit \cup {".", "_", "%", "+", "-"}

\* [A-Za-z0-9.-]
EmailDomain == Alpha \cup Digit \cup {".", "-"}

\* [A-Z|a-z]
EmailTld == Alpha \cup {"|"}

\* [:\s]
ColonOrSpace == {":"} \cup Space

IsWord(c) == c \in Word

\* the last position k >= p-1 such that t[p..k] lies in the class
RunEnd(t, p, class) ==
  LET bad == {m \in p..Len(t) : t[m] \notin class}
  IN  IF bad = {} THEN Len(t) ELSE MinOf(bad) - 1

\* the first position k <= p+1 such that t[k..p] lies in the class
RunStart(t, p, class) ==
  LET bad == {m \in 1..p : t[m] \notin class}
  IN  IF bad = {} THEN 1 ELSE MaxOf(bad) + 1

\* the literal lit occurs in t at position p
LitAt(t, p, lit) == p >= 1 /\ p + Len(lit) - 1 <= Len(t) /\ SubSeq(t, p, p + Len(lit) - 1) = lit

\* \b between t[p-1] and t[p]
WordBoundary(t, p) ==
  LET before == p - 1 >= 1 /\ p - 1 <= Len(t) /\ IsWord(t[p - 1])
      after == p >= 1 /\ p <= Len(t) /\ IsWord(t[p])
  IN  before # after

(***************************************************************************)
(* CVAnalyzer.extract_email:                                               *)
(*   \b[A-Za-z0-9._%+-]+@[A-Za-z0-9.-]+\.[A-Z|a-z]{2,}\b                   *)
(* re.findall without a group lists the whole matches; the first is        *)
(* returned.  EmailEnd is the end of the greedy match after the "@" at j:  *)
(* the last "." of the domain run that a top-level part of two or more     *)
(* characters and a word boundary can follow, and the longest such part.   *)
(***************************************************************************)
EmailTldEnds(t, q) ==
  {e \in (q + 2)..RunEnd(t, q + 1, EmailTld) : WordBoundary(t, e + 1)}

EmailEnd(t, j) ==
  LET dots == {q \in (j + 2)..RunEnd(t, j + 1, EmailDomain) :
                 t[q] = "." /\ EmailTldEnds(t, q) # {}}
  IN  IF dots = {} THEN 0 ELSE MaxOf(EmailTldEnds(t, MaxOf(dots)))

EmailStart(t, j) ==
  LET starts == {i \in RunStart(t, j - 1, EmailLocal)..(j - 1) : WordBoundary(t, i)}
  IN  IF starts = {} THEN 0 ELSE MinOf(starts)

extract_email(t) ==
  LET ats == {j \in 1..Len(t) : t[j] = "@" /\ EmailStart(t, j) # 0 /\ EmailEnd(t, j) # 0}
  IN  IF ats = {} THEN None
      ELSE LET j == MinOf(ats) IN SubSeq(t, EmailStart(t, j), EmailEnd(t, j))

(***************************************************************************)
(* CVAnalyzer.extract_phone:                                               *)
(*   (\+?\d{1,3}[-.\s]?)?\(?\d{3}\)?[-.\s]?\d{3}[-.\s]?\d{4}               *)
(* The pattern has one capturing group, so re.findall lists what the GROUP *)
(* captured in each match, '' for a match in which the group took no part; *)
(* the first entry is returned.                                            *)
(***************************************************************************)
\* t[p..p+n-1] are n digits
DigitsAt(t, p, n) == p >= 1 /\ p + n - 1 <= Len(t) /\ \A m \in p..(p + n - 1) : IsDigit(t[m])

\* position after an optional character of the class at p
SkipOpt(t, p, class) == IF p <= Len(t) /\ t[p] \in class THEN p + 1 ELSE p

\* \(?\d{3}\)?[-.\s]?\d{3}[-.\s]?\d{4} at p: the end of the match, 0 if none
PhoneRestEnd(t, p) ==
  LET p1 == SkipOpt(t, p, {"("})
      p2 == SkipOpt(t, p1 + 3, {")"})
      p3 == SkipOpt(t, p2, PhoneSep)
      p4 == SkipOpt(t, p3 + 3, PhoneSep)
  IN  IF DigitsAt(t, p1, 3) /\ DigitsAt(t, p3, 3) /\ DigitsAt(t, p4, 4) THEN p4 + 3 ELSE 0

\* \+?\d{1,3}[-.\s]? at p with n digits: the end of the group, 0 if none
PhoneGroupEnd(t, p, n) ==
  LET p1 == SkipOpt(t, p, {"+"})
  IN  IF DigitsAt(t, p1, n) THEN SkipOpt(t, p1 + n, PhoneSep) - 1 ELSE 0

\* the digit counts of the group, greedy first, after which the rest matches
PhoneGroupCounts(t, p) ==
  {n \in 1..3 : PhoneGroupEnd(t, p, n) # 0 /\ PhoneRestEnd(t, PhoneGroupEnd(t, p, n) + 1) # 0}

PhoneMatchAt(t, p) == PhoneGroupCounts(t, p) # {} \/ PhoneRestEnd(t, p) # 0

\* group 1 of the match at p
PhoneGroupAt(t, p) ==
  IF PhoneGroupCounts(t, p) # {}
    THEN SubSeq(t, p, PhoneGroupEnd(t, p, MaxOf(PhoneGroupCounts(t, p))))
    ELSE <<>>

\* the whole match at p
PhoneWholeAt(t, p) ==
  IF PhoneGroupCounts(t, p) # {}
    THEN SubSeq(t, p, PhoneRestEnd(t, PhoneGroupEnd(t, p, MaxOf(PhoneGroupCounts(t, p))) + 1))
    ELSE SubSeq(t, p, PhoneRestEnd(t, p))

PhoneStarts(t) == {p \in 1..Len(t) : (IsDigit(t[p]) \/ t[p] \in {"+", "("}) /\ PhoneMatchAt(t, p)}

extract_phone(t) ==
  IF PhoneStarts(t) = {} THEN None ELSE PhoneGroupAt(t, MinOf(PhoneStarts(t)))

(***************************************************************************)
(* CVAnalyzer.extract_skills: the keywords found in text.lower(), title-   *)
(* cased, in keyword order; the method returns list(set(found_skills)),    *)
(* whose order Python leaves unspecified, so the returned list is any      *)
(* ordering of FoundSkills.                                                *)
(***************************************************************************)
skill_keywords ==
  << <<"p","y","t","h","o","n">>,
     <<"j","a","v","a","s","c","r","i","p","t">>,
     <<"t","y","p","e","s","c","r","i","p","t">>,
     <<"j","a","v","a">>,
     <<"c","+","+">>,
     <<"r","e","a","c","t">>,
     <<"n","o","d","e","j","s">>,
     <<"a","n","g","u","l","a","r">>,
     <<"v","u","e">>,
     <<"d","j","a","n","g","o">>,
     <<"f","l","a","s","k">>,
     <<"f","a","s","t","a","p","i">>,
     <<"s","q","l">>,
     <<"p","o","s","t","g","r","e","s","q","l">>,
     <<"m","o","n","g","o","d","b">>,
     <<"r","e","d","i","s">>,
     <<"d","o","c","k","e","r">>,
     <<"k","u","b","e","r","n","e","t","e","s">>,
     <<"a","w","s">>,
     <<"a","z","u","r","e">>,
     <<"g","c","p">>,
     <<"m","a","c","h","i","n","e"," ","l","e","a","r","n","i","n","g">>,
     <<"a","i">>,
     <<"d","a","t","a"," ","s","c","i","e","n","c","e">>,
     <<"d","e","e","p"," ","l","e","a","r","n","i","n","g">>,
     <<"n","l","p">>,
     <<"g","i","t">>,
     <<"a","g","i","l","e">>,
     <<"s","c","r","u","m">>,
     <<"j","e","n","k","i","n","s">>,
     <<"c","i","/","c","d">>,
     <<"m","i","c","r","o","s","e","r","v","i","c","e","s">> >>

\* the elements of lst at the indices that satisfy Keep, in order
RECURSIVE FilterIdx(_, _, _)
FilterIdx(lst, keep, i) ==
  IF i > Len(lst) THEN <<>>
  ELSE IF i \in keep THEN <<lst[i]>> \o FilterIdx(lst, keep, i + 1)
  ELSE FilterIdx(lst, keep, i + 1)

FoundSkills(t) ==
  LET text_lower == Lower(t)
      keep == {i \in 1..Len(skill_keywords) : Contains(text_lower, skill_keywords[i])}
  IN  [i \in 1..Cardinality(keep) |-> Title(FilterIdx(skill_keywords, keep, 1)[i])]

\* list(set(lst)): the orderings of the distinct elements of lst
ListOfSet(lst) ==
  LET elems == Range(lst)
      n == Cardinality(elems)
  IN  {s \in [1..n -> elems] : \A i, j \in 1..n : i # j => s[i] # s[j]}

extract_skills(t) == ListOfSet(FoundSkills(t))

(***************************************************************************)
(* CVAnalyzer.extract_experience_years: three patterns tried in order on   *)
(* text.lower(); the group (\d+) of the first match of the first pattern   *)
(* that matches is converted with int().                                   *)
(***************************************************************************)
L_year == <<"y","e","a","r">>
L_of == <<"o","f">>
L_in == <<"i","n">>
L_experience == <<"e","x","p","e","r","i","e","n","c","e">>

\* \+?\s*years? at p: the position after it, 0 if none
AfterYears(t, p) ==
  LET p1 == SkipOpt(t, p, {"+"})
      p2 == RunEnd(t, p1, Space) + 1
  IN  IF LitAt(t, p2, L_year) THEN p2 + 4 ELSE 0

\* s?\s+ at p, the "s" being the optional end of years?: the position after it, 0 if none
AfterSpaces(t, p) ==
  LET p1 == SkipOpt(t, p, {"s"})
      p2 == RunEnd(t, p1, Space) + 1
  IN  IF p2 > p1 THEN p2 ELSE 0

\* (\d+)\+?\s*years?\s+(?:of\s+)?experience matches with the digits starting at p
Pattern1At(t, p) ==
  LET a == AfterYears(t, RunEnd(t, p, Digit) + 1)
      b == IF a = 0 THEN 0 ELSE AfterSpaces(t, a)
      c == IF b # 0 /\ LitAt(t, b, L_of) /\ RunEnd(t, b + 2, Space) >= b + 2
             THEN RunEnd(t, b + 2, Space) + 1 ELSE 0
  IN  b # 0 /\ (LitAt(t, b, L_experience) \/ (c # 0 /\ LitAt(t, c, L_experience)))

\* (\d+)\+?\s*years?\s+in matches with the digits starting at p
Pattern3At(t, p) ==
  LET a == AfterYears(t, RunEnd(t, p, Digit) + 1)
      b == IF a = 0 THEN 0 ELSE AfterSpaces(t, a)
  IN  b # 0 /\ LitAt(t, b, L_in)

\* experience[:\s]+(\d+)\+?\s*years? matches at p: the start of the digits, 0 if none
Pattern2At(t, p) ==
  LET d == RunEnd(t, p + 10, ColonOrSpace) + 1
  IN  IF LitAt(t, p, L_experience) /\ d > p + 10 /\ d <= Len(t) /\ IsDigit(t[d])
         /\ AfterYears(t, RunEnd(t, d, Digit) + 1) # 0
        THEN d ELSE 0

CharToDigit(c) == (CHOOSE i \in 1..10 : DigitChars[i] = c) - 1

\* int() of a string of digits
RECURSIVE ToInt(_)
ToInt(ds) ==
  IF ds = <<>> THEN 0 ELSE 10 * ToInt(SubSeq(ds, 1, Len(ds) - 1)) + CharToDigit(ds[Len(ds)])

DigitsFrom(t, p) == SubSeq(t, p, RunEnd(t, p, Digit))

extract_experience_years(t) ==
  LET text_lower == Lower(t)
      m1 == {p \in 1..Len(text_lower) : IsDigit(text_lower[p]) /\ Pattern1At(text_lower, p)}
      m2 == {p \in 1..Len(text_lower) : text_lower[p] = "e" /\ Pattern2At(text_lower, p) # 0}
      m3 == {p \in 1..Len(text_lower) : IsDigit(text_lower[p]) /\ Pattern3At(text_lower, p)}
  IN  IF m1 # {} THEN ToInt(DigitsFrom(text_lower, MinOf(m1)))
      ELSE IF m2 # {} THEN ToInt(DigitsFrom(text_lower, Pattern2At(text_lower, MinOf(m2))))
      ELSE IF m3 # {} THEN ToInt(DigitsFrom(text_lower, MinOf(m3)))
      ELSE 0

(***************************************************************************)
(* CVAnalyzer.extract_education: the degree keywords found in              *)
(* text.lower(), upper-cased, in keyword order.                            *)
(***************************************************************************)
degrees == <<S_phd, S_master, S_bachelor, S_mba, S_msc, S_bsc, S_ba, S_ma>>

extract_education(t) ==
  LET text_lower == Lower(t)
      keep == {i \in 1..Len(degrees) : Contains(text_lower, degrees[i])}
  IN  [i \in 1..Cardinality(keep) |-> Upper(FilterIdx(degrees, keep, 1)[i])]

(***************************************************************************)
(* Uploaded files.  A file is its filename and its content; the content is *)
(* either a PDF container holding the text of its pages or raw bytes, one  *)
(* character per byte, "<ff>" standing for a byte that is not valid UTF-8. *)
(***************************************************************************)
Ext_pdf == <<".","p","d","f">>
Ext_txt == <<".","t","x","t">>
Ext_doc == <<".","d","o","c">>
Ext_docx == <<".","d","o","c","x">>
Ext_png == <<".","p","n","g">>

InvalidByte == "<ff>"

IsValidByte(c) == c # InvalidByte

\* what the raw bytes of a PDF container decode to: its header line
PdfHeader == <<"%","P","D","F","-","1",".","4">>

\* CVAnalyzer.extract_text_from_pdf: the text of the pages, or HTTPException(400)
extract_text_from_pdf(content) ==
  IF content.pdf
    THEN [ok |-> TRUE, text |-> content.body]
    ELSE [ok |-> FALSE, error |-> "400: PDF extraction failed"]

\* content.decode('utf-8', errors='ignore')
DecodeIgnore(content) ==
  IF content.pdf THEN PdfHeader ELSE SelectSeq(content.body, IsValidByte)

\* analyze_cv, "Extract text": the text, or the HTTPException raised
FileText(file) ==
  IF EndsWith(file.filename, Ext_pdf) THEN extract_text_from_pdf(file.content)
  ELSE IF EndsWith(file.filename, Ext_txt) \/ EndsWith(file.filename, Ext_doc)
          \/ EndsWith(file.filename, Ext_docx)
    THEN [ok |-> TRUE, text |-> DecodeIgnore(file.content)]
  ELSE [ok |-> FALSE, error |-> "400: Unsupported file format"]

\* analyze_cv, "Extract candidate information": the cv_data dicts the call can build
ExtractedProfiles(t) ==
  {[email |-> extract_email(t),
    phone |-> extract_phone(t),
    skills |-> s,
    experience_years |-> extract_experience_years(t),
    education |-> extract_education(t)] : s \in extract_skills(t)}

\* analyze_cv, "Job requirements": required_skills or []
BuildRequirements(params) ==
  [required_skills |-> IF params.required_skills = None THEN <<>> ELSE params.required_skills,
   min_experience_years |-> params.min_experience_years,
   required_education |-> params.required_education]

\* the dict analyze_cv returns
AnalyzeResult(file, cv, params) ==
  [candidate_info |-> cv,
   score |-> calculate_overall_score(cv, BuildRequirements(params)),
   filename |-> file.filename]

(***************************************************************************)
(* Document texts of the model: concatenations of fragments.               *)
(***************************************************************************)
Fragment1 ==
  <<"C","o","n","t","a","c","t",":"," ","a","@","b",".","c","o","m",","," ">>

Fragment2 ==
  <<"p","h","o","n","e"," ","5","5","5","-","1","2","3","-","4","5","6","7","."," ">>

Fragment3 ==
  <<"+","1"," ","(","5","5","5",")"," ","1","2","3",".","4","5","6","7"," ">>

Fragment4 ==
  <<"5"," ","y","e","a","r","s"," ","e","x","p","e","r","i","e","n","c","e"," ","i","n"," ","P",
    "y","t","h","o","n"," ","a","n","d"," ","R","e","a","c","t","."," ">>

Fragment5 ==
  <<"E","x","p","e","r","i","e","n","c","e",":"," ","1","2","+"," ","y","e","a","r","s","."," ">>

Fragment6 ==
  <<"3"," ","y","e","a","r","s"," ","i","n"," ","D","o","c","k","e","r",","," ">>

Fragment7 ==
  <<"B","a","c","h","e","l","o","r"," ","d","e","g","r","e","e","."," ">>

Fragment8 ==
  <<"P","h","D",","," ","M","S","c","."," ">>

Fragment9 ==
  <<"t","e","l"," ","1","2","3","4","5"," ">>

C6Text ==
  <<"C","o","n","t","a","c","t",":"," ","a","@","b",".","c","o","m",","," ","p","h","o","n","e",
    " ","5","5","5","-","1","2","3","-","4","5","6","7","."," ","5"," ","y","e","a","r","s"," ",
    "e","x","p","e","r","i","e","n","c","e"," ","i","n"," ","P","y","t","h","o","n"," ","a","n",
    "d"," ","R","e","a","c","t","."," ","B","a","c","h","e","l","o","r"," ","d","e","g","r","e",
    "e",".">>

Fragments ==
  {Fragment1, Fragment2, Fragment3, Fragment4, Fragment5, Fragment6, Fragment7, Fragment8,
   Fragment9, C6Text}

RECURSIVE TextsOf(_)
TextsOf(n) ==
  IF n = 0 THEN {<<>>} ELSE TextsOf(n - 1) \cup {t \o f : t \in TextsOf(n - 1), f \in Fragments}

Texts == TextsOf(MaxFragments)

C6Params ==
  [required_skills |-> <<T_python, T_react, T_docker>>,
   min_experience_years |-> 3,
   required_education |-> S_bachelor]

DefaultParams ==
  [required_skills |-> None, min_experience_years |-> 0, required_education |-> S_bachelor]

Fn_cv == <<"c","v">>

AnalyzeFiles ==
  {[filename |-> Fn_cv \o Ext_txt, content |-> [pdf |-> FALSE, body |-> t]] : t \in Texts}
  \cup {[filename |-> Fn_cv \o Ext_pdf, content |-> [pdf |-> TRUE, body |-> C6Text]],
        [filename |-> Fn_cv \o Ext_pdf, content |-> [pdf |-> FALSE, body |-> C6Text]],
        [filename |-> Fn_cv \o Ext_docx, content |-> [pdf |-> FALSE, body |-> <<InvalidByte>> \o Fragment2]],
        [filename |-> Fn_cv \o Ext_png, content |-> [pdf |-> FALSE, body |-> Fragment1]]}

(***************************************************************************)
(* Specification SpecAnalyze: one request to /analyze.                     *)
(***************************************************************************)
InitAnalyze ==
  /\ pc = "analyze_call"
  /\ files \in {<<f>> : f \in AnalyzeFiles}
  /\ job_requirements \in {C6Params, DefaultParams}
  /\ idx = 1
  /\ results = <<>>
  /\ response = NoResponse
  /\ text = <<>>
  /\ cv_data = NoData
  /\ score = NoScore

AnalyzeCv ==
  /\ pc = "analyze_call"
  /\ FileText(files[idx]).ok
  /\ text' = FileText(files[idx]).text
  /\ \E cv \in ExtractedProfiles(text') :
       /\ cv_data' = cv
       /\ response' = AnalyzeResult(files[idx], cv, job_requirements)
       /\ score' = response'.score
  /\ pc' = "analyze_done"
  /\ UNCHANGED <<files, job_requirements, idx, results>>

AnalyzeCvRaises ==
  /\ pc = "analyze_call"
  /\ ~FileText(files[idx]).ok
  /\ response' = [error |-> FileText(files[idx]).error]
  /\ pc' = "analyze_raised"
  /\ UNCHANGED <<files, job_requirements, idx, results, text, cv_data, score>>

NextAnalyze == AnalyzeCv \/ AnalyzeCvRaises

SpecAnalyze == InitAnalyze /\ [][NextAnalyze]_vars

(***************************************************************************)
(* batch_analyze_cvs.                                                      *)
(***************************************************************************)
\* variant: the except branch swallows the exception without recording the file
AppendErrorDropped(res, file, e) == res

\* the except branch: the error entry appended for a file whose analysis raised
AppendError(res, file, e) == Append(res, [filename |-> file.filename, error |-> e])

\* [r for r in results if 'score' in r]
RECURSIVE ValidResults(_)
ValidResults(res) ==
  IF res = <<>> THEN <<>>
  ELSE IF "score" \in DOMAIN Head(res) THEN <<Head(res)>> \o ValidResults(Tail(res))
  ELSE ValidResults(Tail(res))

\* [r for r in results if 'error' in r]
RECURSIVE ErrorResults(_)
ErrorResults(res) ==
  IF res = <<>> THEN <<>>
  ELSE IF "error" \in DOMAIN Head(res) THEN <<Head(res)>> \o ErrorResults(Tail(res))
  ELSE ErrorResults(Tail(res))

\* key=lambda x: x['score']['overall_score']
SortKey(x) == x.score.overall_score

\* x placed behind every element of the descending list whose key is >= its own
RECURSIVE InsertDescending(_, _)
InsertDescending(sorted, x) ==
  IF sorted = <<>> THEN <<x>>
  ELSE IF SortKey(Head(sorted)) >= SortKey(x)
    THEN <<Head(sorted)>> \o InsertDescending(Tail(sorted), x)
  ELSE <<x>> \o sorted

\* x placed behind every element of the ascending list whose key is <= its own
RECURSIVE InsertAscending(_, _)
InsertAscending(sorted, x) ==
  IF sorted = <<>> THEN <<x>>
  ELSE IF SortKey(Head(sorted)) <= SortKey(x)
    THEN <<Head(sorted)>> \o InsertAscending(Tail(sorted), x)
  ELSE <<x>> \o sorted

RECURSIVE SortAscending(_)
SortAscending(lst) ==
  IF lst = <<>> THEN <<>>
  ELSE InsertAscending(SortAscending(SubSeq(lst, 1, Len(lst) - 1)), lst[Len(lst)])

Reverse(lst) == [i \in 1..Len(lst) |-> lst[Len(lst) + 1 - i]]

\* variant: a stable ascending sort followed by reverse(), which turns ties around
SortAscendingReversed(lst) == Reverse(SortAscending(lst))

\* list.sort(key=..., reverse=True): stable, elements with equal keys keep their order
RECURSIVE SortByScoreDescending(_)
SortByScoreDescending(lst) ==
  IF lst = <<>> THEN <<>>
  ELSE InsertDescending(SortByScoreDescending(SubSeq(lst, 1, Len(lst) - 1)), lst[Len(lst)])

\* the dict batch_analyze_cvs returns
BatchResponse(fs, res) ==
  LET valid_results == SortByScoreDescending(ValidResults(res))
  IN  [total_candidates |-> Len(fs),
       successfully_analyzed |-> Len(valid_results),
       ranked_candidates |-> valid_results,
       errors |-> ErrorResults(res)]

(***************************************************************************)
(* Uploads of a batch request: file i is named by its position and an      *)
(* extension and carries one of the documents below.                       *)
(***************************************************************************)
DocA == Fragment4 \o Fragment7

DocB == Fragment1 \o Fragment3

DocC == Fragment8

BatchUploads ==
  {[ext |-> Ext_txt, content |-> [pdf |-> FALSE, body |-> DocA]],
   [ext |-> Ext_pdf, content |-> [pdf |-> TRUE, body |-> DocA]],
   [ext |-> Ext_txt, content |-> [pdf |-> FALSE, body |-> DocB]],
   [ext |-> Ext_docx, content |-> [pdf |-> FALSE, body |-> DocC]],
   [ext |-> Ext_pdf, content |-> [pdf |-> FALSE, body |-> DocB]],
   [ext |-> Ext_png, content |-> [pdf |-> FALSE, body |-> DocA]]}

BatchFiles ==
  UNION {{[i \in 1..n |-> [filename |-> <<DigitChars[i + 1]>> \o u[i].ext, content |-> u[i].content]]
            : u \in [1..n -> BatchUploads]} : n \in 1..MaxFiles}

(***************************************************************************)
(* Specification Spec: one request to /batch-analyze.                      *)
(***************************************************************************)
Init ==
  /\ pc = "batch_loop"
  /\ files \in BatchFiles
  /\ job_requirements \in {C6Params, DefaultParams}
  /\ idx = 1
  /\ results = <<>>
  /\ response = NoResponse
  /\ text = <<>>
  /\ cv_data = NoData
  /\ score = NoScore

\* one pass of the loop in which analyze_cv returns
BatchAnalyzeOk ==
  /\ pc = "batch_loop"
  /\ idx <= Len(files)
  /\ FileText(files[idx]).ok
  /\ text' = FileText(files[idx]).text
  /\ \E cv \in ExtractedProfiles(text') :
       /\ cv_data' = cv
       /\ results' = Append(results, AnalyzeResult(files[idx], cv, job_requirements))
       /\ score' = results'[Len(results')].score
  /\ idx' = idx + 1
  /\ UNCHANGED <<pc, files, job_requirements, response>>

\* one pass of the loop in which analyze_cv raises
BatchAnalyzeRaises ==
  /\ pc = "batch_loop"
  /\ idx <= Len(files)
  /\ ~FileText(files[idx]).ok
  /\ results' = AppendError(results, files[idx], FileText(files[idx]).error)
  /\ idx' = idx + 1
  /\ UNCHANGED <<pc, files, job_requirements, response, text, cv_data, score>>

\* after the loop: filter, sort and return
BatchReturn ==
  /\ pc = "batch_loop"
  /\ idx > Len(files)
  /\ response' = BatchResponse(files, results)
  /\ pc' = "batch_done"
  /\ UNCHANGED <<files, job_requirements, idx, results, text, cv_data, score>>

Next == BatchAnalyzeOk \/ BatchAnalyzeRaises \/ BatchReturn

Spec == Init /\ [][Next]_vars

(***************************************************************************)
(* Properties of calculate_overall_score (specification SpecScore).        *)
(***************************************************************************)
Scored == pc = "score_done"

Abs(x) == IF x < 0 THEN -x ELSE x

\* the weighted sum of the four returned breakdown components, in thousandths
ReturnedWeightedSum ==
  4 * score.breakdown.skills_match + 3 * score.breakdown.experience_match
  + 2 * score.breakdown.education_match + score.breakdown.cv_completeness

\* C3 as claimed: overall_score equals 0.4*skills_match + 0.3*experience_match +
\* 0.2*education_match + 0.1*cv_completeness over the returned breakdown, rounded
\* to 2 decimals.
C3_Original ==
  Scored => score.overall_score = RoundHalfEven(ReturnedWeightedSum, 10)

\* C3 amended: overall_score is the 2-decimal rounding of the weighted sum taken
\* with the experience score before the breakdown rounds it (c/max(r,1)*100
\* capped at 100 when c >= r, c/max(r,1)*70 when c < r) and with the other three
\* components as returned; it stays within 0.01 of the weighted sum of the
\* returned breakdown.
C3_Amended ==
  Scored =>
    LET c == cv_data.experience_years
        r == job_requirements.min_experience_years
        den == IF r >= 1 THEN r ELSE 1
        expnum == IF c >= r THEN (IF c >= den THEN 100 * den ELSE 100 * c) ELSE 70 * c
        exact == 4 * score.breakdown.skills_match * den + 300 * expnum
                 + 2 * score.breakdown.education_match * den
                 + score.breakdown.cv_completeness * den
    IN  /\ 2 * Abs(10 * den * score.overall_score - exact) <= 10 * den
        /\ Abs(10 * score.overall_score - ReturnedWeightedSum) < 10

\* C3 witness: a scored call whose experience score is not a whole number of
\* hundredths and whose overall_score differs from the rounded weighted sum of
\* the returned breakdown.
C3_Witness ==
  /\ Scored
  /\ cv_data.experience_years = 2
  /\ job_requirements.min_experience_years = 9
  /\ score.overall_score # RoundHalfEven(ReturnedWeightedSum, 10)

LabelFor(overall) ==
  IF overall >= 8000 THEN StrongMatch
  ELSE IF overall >= 6500 THEN GoodMatch
  ELSE IF overall >= 5000 THEN ModerateMatch
  ELSE WeakMatch

\* C4: the recommendation label agrees with the returned overall_score under
\* inclusive lower bounds 80 / 65 / 50; a returned score exactly on a boundary
\* carries the higher tier's label.
C4_LabelAgrees ==
  Scored => score.recommendation = LabelFor(score.overall_score)

\* C5: every breakdown component and overall_score lie in [0, 100].
C5_InRange ==
  Scored =>
    /\ score.breakdown.skills_match \in 0..10000
    /\ score.breakdown.experience_match \in 0..10000
    /\ score.breakdown.education_match \in 0..10000
    /\ score.breakdown.cv_completeness \in 0..10000
    /\ score.overall_score \in 0..10000

\* C5 witness: an over-qualified candidate (c far above r) whose components all
\* reach the upper end of the range.
C5_Witness ==
  /\ Scored
  /\ cv_data.experience_years > 2 * job_requirements.min_experience_years
  /\ job_requirements.min_experience_years >= 1
  /\ score.breakdown.experience_match = 10000
  /\ score.overall_score = 10000

\* C7: for r >= 0, the experience score computed by calculate_overall_score is
\* min(100, c/max(r,1)*100) when c >= r and c/max(r,1)*70 when c < r, the
\* breakdown returning it to 2 decimals; c=5,r=3 gives 100, c=2,r=5 gives 28.0,
\* c < r scores strictly below 70, and r = 0 is computed with denominator 1.
C7_Experience ==
  (Scored /\ job_requirements.min_experience_years >= 0) =>
    LET c == cv_data.experience_years
        r == job_requirements.min_experience_years
        m == IF r >= 1 THEN r ELSE 1
        x == ExpScore(c, r)
        e == score.breakdown.experience_match
    IN  /\ x.den >= 1
        /\ c >= r => (IF c >= m THEN x.num = 100 * x.den ELSE x.num * m = 100 * c * x.den)
        /\ c < r => (x.num * m = 70 * c * x.den /\ x.num < 70 * x.den)
        /\ 2 * Abs(x.den * e - 100 * x.num) <= x.den
        /\ (c = 5 /\ r = 3) => e = 10000
        /\ (c = 2 /\ r = 5) => e = 2800
        /\ r = 0 => e = (IF c = 0 THEN 0 ELSE 10000)

\* C7 witness: the under-qualified example c=2, r=5 scored 28.0.
C7_Witness ==
  /\ Scored
  /\ cv_data.experience_years = 2
  /\ job_requirements.min_experience_years = 5
  /\ score.breakdown.experience_match = 2800

TierSatisfied(q, E) ==
  \/ Contains(Lower(q), S_phd) /\ InList(Upper(S_phd), E)
  \/ Contains(Lower(q), S_master)
       /\ \E d \in {Upper(S_master), Upper(S_mba), Upper(S_msc), Upper(S_ma)} : InList(d, E)
  \/ Contains(Lower(q), S_bachelor)
       /\ \E d \in {Upper(S_bachelor), Upper(S_bsc), Upper(S_ba)} : InList(d, E)

\* C8: education_match is 100 when a tier named in the lower-cased requirement
\* is satisfied by the candidate's degrees, else 80 when the candidate has any
\* education entry, else 0; it is 0 exactly when the education list is empty.
C8_Education ==
  Scored =>
    LET q == job_requirements.required_education
        E == cv_data.education
        e == score.breakdown.education_match
    IN  /\ e \in {0, 8000, 10000}
        /\ e = 10000 <=> TierSatisfied(q, E)
        /\ e = 0 <=> E = <<>>

\* C8 witness: requirement "PhD" met by a candidate holding PHD.
C8_Witness ==
  /\ Scored
  /\ job_requirements.required_education = T_PhD
  /\ InList(Upper(S_phd), cv_data.education)
  /\ score.breakdown.education_match = 10000

\* C9: skills_match is 100 when required_skills is empty, otherwise the share of
\* required entries found case-insensitively among the candidate's skills, times
\* 100, to 2 decimals; only the set of lower-cased candidate skills matters.
C9_SkillMatch ==
  Scored =>
    LET req == job_requirements.required_skills
        have == {Lower(cv_data.skills[j]) : j \in 1..Len(cv_data.skills)}
        found == Cardinality({i \in 1..Len(req) : Lower(req[i]) \in have})
        s == score.breakdown.skills_match
    IN  IF Len(req) = 0
          THEN s = 10000
          ELSE 2 * Abs(Len(req) * s - 10000 * found) <= Len(req)

\* C9 witness: three required skills all found in a candidate list that differs
\* from them in order and letter case.
C9_Witness ==
  /\ Scored
  /\ job_requirements.required_skills = <<T_python, T_react, T_docker>>
  /\ cv_data.skills = <<T_REACT, T_Docker, T_python>>
  /\ score.breakdown.skills_match = 10000

(***************************************************************************)
(* Properties of batch_analyze_cvs (specification Spec).                   *)
(***************************************************************************)
BatchDone == pc = "batch_done"

\* the number of entries of lst that carry the filename fn
CountName(lst, fn) == Cardinality({k \in 1..Len(lst) : lst[k].filename = fn})

\* the position of the file named fn in the request
PositionOf(fn) == CHOOSE i \in 1..Len(files) : files[i].filename = fn

\* C1: a document whose decoding or analysis raises never aborts the batch:
\* the loop goes on to every later document, and in the response each input
\* document appears exactly once, in errors under its own filename when it
\* failed and in ranked_candidates otherwise, so that total_candidates =
\* successfully_analyzed + number of errors.
C1_FailureIsolated ==
  /\ pc = "batch_loop" =>
       /\ Len(results) = idx - 1
       /\ \A i \in 1..Len(results) : results[i].filename = files[i].filename
  /\ BatchDone =>
       /\ response.total_candidates = Len(files)
       /\ response.total_candidates = response.successfully_analyzed + Len(response.errors)
       /\ response.successfully_analyzed = Len(response.ranked_candidates)
       /\ \A i \in 1..Len(files) :
            /\ CountName(response.ranked_candidates, files[i].filename)
                 + CountName(response.errors, files[i].filename) = 1
            /\ CountName(response.errors, files[i].filename) = 1 <=> ~FileText(files[i]).ok

\* C1 witness: a batch of three whose first document is unreadable and whose
\* two later documents were analyzed: N-1 successes and one error.
C1_Witness ==
  /\ BatchDone
  /\ Len(files) = 3
  /\ ~FileText(files[1]).ok
  /\ response.successfully_analyzed = 2
  /\ Len(response.errors) = 1
  /\ response.errors[1].filename = files[1].filename

\* C2: ranked_candidates is a permutation of the successfully analyzed
\* documents in non-increasing overall_score order, and two candidates with
\* equal overall_score keep the relative order of their documents in the input.
C2_StableRanking ==
  BatchDone =>
    LET ranked == response.ranked_candidates
    IN  /\ \A i \in 1..Len(files) :
             FileText(files[i]).ok => CountName(ranked, files[i].filename) = 1
        /\ Len(ranked) = Cardinality({i \in 1..Len(files) : FileText(files[i]).ok})
        /\ \A k \in 1..Len(ranked) : \E i \in 1..Len(results) : results[i] = ranked[k]
        /\ \A k \in 1..(Len(ranked) - 1) :
             ranked[k].score.overall_score >= ranked[k + 1].score.overall_score
        /\ \A k, l \in 1..Len(ranked) :
             (k < l /\ ranked[k].score.overall_score = ranked[l].score.overall_score)
               => PositionOf(ranked[k].filename) < PositionOf(ranked[l].filename)

\* C2 witness: three ranked candidates, two of them tied, with the best-scored
\* document last in the input, so that the sort moved it ahead of the tie.
C2_Witness ==
  /\ BatchDone
  /\ Len(response.ranked_candidates) = 3
  /\ PositionOf(response.ranked_candidates[1].filename) = 3
  /\ response.ranked_candidates[2].score.overall_score
       = response.ranked_candidates[3].score.overall_score
  /\ response.ranked_candidates[1].score.overall_score
       > response.ranked_candidates[2].score.overall_score

(***************************************************************************)
(* Properties of analyze_cv (specification SpecAnalyze).                   *)
(***************************************************************************)
Analyzed == pc = "analyze_done"

\* C6: the text of the end-to-end example, analyzed against required_skills
\* ["python","react","docker"], min_experience_years 3 and required_education
\* "bachelor", yields skills_match 66.67, experience_match 100, education_match
\* 100, cv_completeness 100, overall_score 86.67 and "Strong Match".
C6_EndToEnd ==
  (Analyzed /\ text = C6Text /\ job_requirements = C6Params) =>
    /\ score.breakdown.skills_match = 6667
    /\ score.breakdown.experience_match = 10000
    /\ score.breakdown.education_match = 10000
    /\ score.breakdown.cv_completeness = 10000
    /\ score.overall_score = 8667
    /\ score.recommendation = StrongMatch

\* C10: extract_phone returns the first substring of the text that matches the
\* phone pattern and is absent only when there is no match, so a text with a
\* 3-3-4 phone number, with or without country code, earns the 25 completeness
\* points for phone.
C10_PhoneIsFirstMatch ==
  Analyzed =>
    IF PhoneStarts(text) # {}
      THEN /\ cv_data.phone = PhoneWholeAt(text, MinOf(PhoneStarts(text)))
           /\ score.breakdown.cv_completeness
                = 100 * (25 + (IF Truthy(cv_data.email) THEN 25 ELSE 0)
                            + (IF cv_data.skills # <<>> THEN 25 ELSE 0)
                            + (IF cv_data.experience_years > 0 THEN 25 ELSE 0))
      ELSE cv_data.phone = None

====
